---- MODULE Spec2Model ----
(***************************************************************************)
(* PriorityQueue<T> of task5_David_Cohen/include/PriorityQueue.h: a        *)
(* std::list<T> kept in comparator order by a linear scan in push, with    *)
(* poll taking the front.  The element type T is a W-bit integer type,     *)
(* signed or unsigned, of rank below int: val1 - val2 is computed exactly  *)
(* in int and converted to T (modulo 2^W) by MyComparator's return type,   *)
(* so no call has undefined behaviour.                                     *)
(***************************************************************************)
EXTENDS Integers, Sequences, FiniteSets, Bags, TLC

\* Width in bits of the element type T.
W == 2

\* Number of push calls a behaviour makes.
MaxPushes == 3

VARIABLES
    T,        \* the template argument of PriorityQueue<T>: "signed" or "unsigned"
    _data,    \* std::list<T> _data, front first
    stamp,    \* history: for each node of _data, the number of the push that made it
    pushed,   \* history: the arguments of the push calls, in call order
    polled,   \* history: the values returned by poll, in call order
    calls,    \* history: the _compare calls of the last push, <<val1, val2, result>>
    batch,    \* history: TRUE while no push has followed a poll
    last      \* the last call and how it ended (returned or threw)

vars == <<T, _data, stamp, pushed, polled, calls, batch, last>>

\* The instantiations considered: a signed and an unsigned W-bit integer type.
Types == {"signed", "unsigned"}

\* The values of type T.
Values(ty) ==
    IF ty = "signed" THEN -(2^(W-1)) .. (2^(W-1) - 1) ELSE 0 .. (2^W - 1)

\* Conversion of an int to T: the value of T congruent to x modulo 2^W.
ToT(ty, x) ==
    LET m == x % (2^W)
    IN  IF ty = "signed" /\ m >= 2^(W-1) THEN m - 2^W ELSE m

\* Faulty variant of MyComparator: the difference returned as int, not as T.
MyComparatorInt(ty, val1, val2) == val1 - val2

\* T MyComparator<T>::operator()(val1, val2): return val1 - val2;
MyComparator(ty, val1, val2) == ToT(ty, val1 - val2)

\* EmptyPriorityQueue::what()
what == "PriorityQueue is empty!"

\* The loop of push: starting at position it, advance while it != end and
\* _compare(*it, t) < 0.  Positions are 1..Len(s), end is Len(s) + 1.
RECURSIVE Scan(_, _, _, _)
Scan(ty, s, t, it) ==
    IF it # Len(s) + 1 /\ MyComparator(ty, s[it], t) < 0
    THEN Scan(ty, s, t, it + 1)
    ELSE it

\* The scan with <= in place of <: it also advances past nodes equal to t.
RECURSIVE ScanPastEqual(_, _, _, _)
ScanPastEqual(ty, s, t, it) ==
    IF it # Len(s) + 1 /\ MyComparator(ty, s[it], t) <= 0
    THEN ScanPastEqual(ty, s, t, it + 1)
    ELSE it

\* Faulty variant of InsertionPoint: the loop condition written <= 0.
InsertionPointPastEqual(ty, s, t) == ScanPastEqual(ty, s, t, 1)

\* Faulty variant of InsertionPoint: the loop left out, insert at begin().
InsertionPointFront(ty, s, t) == 1

\* The position push inserts before: the scan started at begin().
InsertionPoint(ty, s, t) == Scan(ty, s, t, 1)

\* Faulty variant of ListInsert: a value already stored is not stored again.
ListInsertUnique(s, it, t) ==
    IF \E i \in DOMAIN s : s[i] = t
    THEN s
    ELSE SubSeq(s, 1, it - 1) \o <<t>> \o SubSeq(s, it, Len(s))

\* std::list::insert(it, t): t becomes the node before position it.
ListInsert(s, it, t) == SubSeq(s, 1, it - 1) \o <<t>> \o SubSeq(s, it, Len(s))

\* Faulty variant of push: push_back(t), no scan.
pushBack(ty, s, t) == Append(s, t)

\* void PriorityQueue<T>::push(const T& t): the list after the call.
push(ty, s, t) == ListInsert(s, InsertionPoint(ty, s, t), t)

\* The _compare calls of the loop of push from position it on: the condition
\* is evaluated left to right, so a node is compared only when it != end,
\* and the loop goes on only after a negative result.
RECURSIVE ScanCalls(_, _, _, _)
ScanCalls(ty, s, t, it) ==
    IF it = Len(s) + 1
    THEN <<>>
    ELSE IF MyComparator(ty, s[it], t) < 0
         THEN <<<<s[it], t, MyComparator(ty, s[it], t)>>>> \o ScanCalls(ty, s, t, it + 1)
         ELSE <<<<s[it], t, MyComparator(ty, s[it], t)>>>>

\* Faulty variant of CompareCalls: the loop evaluates _compare twice per node
\* (once in the condition, once more in the body).
CompareCallsTwice(ty, s, t) ==
    LET n == IF InsertionPoint(ty, s, t) <= Len(s)
             THEN InsertionPoint(ty, s, t) ELSE Len(s)
    IN  [i \in 1..(2 * n) |->
            <<s[(i + 1) \div 2], t, MyComparator(ty, s[(i + 1) \div 2], t)>>]

\* The _compare calls push makes: one per node up to and including the node
\* the scan stops at.
CompareCalls(ty, s, t) == ScanCalls(ty, s, t, 1)

\* Faulty variant of poll: no emptiness check, a value-initialised T comes back.
pollSentinel(s) ==
    IF s = <<>>
    THEN [outcome |-> "return", val |-> 0, data |-> s]
    ELSE [outcome |-> "return", val |-> Head(s), data |-> Tail(s)]

\* Faulty variant of poll: pop_back() in place of pop_front().
pollPopBack(s) ==
    IF s = <<>>
    THEN [outcome |-> "throw", what |-> what, data |-> s]
    ELSE [outcome |-> "return", val |-> Head(s), data |-> SubSeq(s, 1, Len(s) - 1)]

\* Faulty variant of poll: the emptiness check made after pop_front().
pollCheckAfterPop(s) ==
    IF s = <<>> \/ Tail(s) = <<>>
    THEN [outcome |-> "throw", what |-> what, data |-> <<>>]
    ELSE [outcome |-> "return", val |-> Head(s), data |-> Tail(s)]

\* T PriorityQueue<T>::poll(): how the call ends and the list after it.
poll(s) ==
    IF s = <<>>
    THEN [outcome |-> "throw", what |-> what, data |-> s]
    ELSE [outcome |-> "return", val |-> Head(s), data |-> Tail(s)]

\* The shape of the state: the members of PriorityQueue<T> and the histories.
TypeOK ==
    /\ T \in Types
    /\ _data \in Seq(Values(T)) /\ Len(_data) <= MaxPushes
    /\ stamp \in Seq(1 .. MaxPushes) /\ Len(stamp) = Len(_data)
    /\ pushed \in Seq(Values(T)) /\ Len(pushed) <= MaxPushes
    /\ polled \in Seq(Values(T)) /\ Len(polled) <= Len(pushed)
    /\ \A i \in DOMAIN calls : calls[i][3] \in Values(T)
    /\ batch \in BOOLEAN
    /\ last.op \in {"none", "push", "poll"}
    /\ last.outcome \in {"none", "return", "throw"}

Init ==
    /\ T \in Types
    /\ _data = <<>>
    /\ stamp = <<>>
    /\ pushed = <<>>
    /\ polled = <<>>
    /\ calls = <<>>
    /\ batch = TRUE
    /\ last = [op |-> "none", outcome |-> "none"]

Push(t) ==
    /\ Len(pushed) < MaxPushes
    /\ _data' = push(T, _data, t)
    /\ stamp' = ListInsert(stamp, InsertionPoint(T, _data, t), Len(pushed) + 1)
    /\ pushed' = Append(pushed, t)
    /\ calls' = CompareCalls(T, _data, t)
    /\ batch' = (batch /\ last.op # "poll")
    /\ last' = [op |-> "push", outcome |-> "return"]
    /\ UNCHANGED <<T, polled>>

Poll ==
    LET r == poll(_data)
    IN  /\ _data' = r.data
        /\ stamp' = SubSeq(stamp, Len(stamp) - Len(r.data) + 1, Len(stamp))
        /\ polled' = IF r.outcome = "return" THEN Append(polled, r.val) ELSE polled
        /\ last' = IF r.outcome = "return"
                   THEN [op |-> "poll", outcome |-> "return", val |-> r.val]
                   ELSE [op |-> "poll", outcome |-> "throw", what |-> r.what]
        /\ UNCHANGED <<T, pushed, calls, batch>>

Next ==
    \/ \E t \in Values(T) : Push(t)
    \/ Poll

Spec == Init /\ [][Next]_vars

\* A range of values of a signed T over which val1 - val2 is always a value
\* of T: the conversion to T changes nothing.
NoOverflowValues == 0 .. (2^(W-1) - 1)

\* PriorityQueue<T> for a signed T, used with values of that range only.
InitNoOverflow == Init /\ T = "signed"

PushNoOverflow == \E t \in NoOverflowValues : Push(t)

NextNoOverflow ==
    \/ PushNoOverflow
    \/ Poll

SpecNoOverflow == InitNoOverflow /\ [][NextNoOverflow]_vars

(***************************************************************************)
(* Helpers of the properties.                                              *)
(***************************************************************************)

\* The bag of the elements of a sequence.
SeqToBag(s) ==
    [v \in {s[i] : i \in DOMAIN s} |-> Cardinality({i \in DOMAIN s : s[i] = v})]

\* s with the element at position k taken out.
RemoveAt(s, k) == SubSeq(s, 1, k - 1) \o SubSeq(s, k + 1, Len(s))

\* The adjacent positions of the list.
Adjacent == 1 .. (Len(_data) - 1)

(***************************************************************************)
(* C1.  Ordering invariant: read front to back, the stored sequence is     *)
(* non-decreasing under the queue's comparator, that is, for every         *)
(* adjacent pair (e1 earlier, e2 later) e1 does not sort after e2:         *)
(* _compare(e1, e2) is not positive.                                       *)
(***************************************************************************)
C1_NonDecreasing ==
    \A i \in Adjacent : ~(MyComparator(T, _data[i], _data[i + 1]) > 0)

(***************************************************************************)
(* C2.  With the default comparator, a poll that returns gives back a      *)
(* least element among those pushed and not yet polled: the value          *)
(* returned is no greater than any element still stored.                   *)
(***************************************************************************)
C2_PollReturnsLeast ==
    (last.op = "poll" /\ last.outcome = "return")
        => \A i \in DOMAIN _data : last.val <= _data[i]

(***************************************************************************)
(* C3.  poll on an empty queue (fresh or drained) throws                   *)
(* EmptyPriorityQueue, whose what() is "PriorityQueue is empty!", returns  *)
(* no value and leaves the queue as it was: empty, as a fresh queue is.    *)
(***************************************************************************)
C3_EmptyPollThrows ==
    [][(_data = <<>> /\ last'.op = "poll")
          => /\ last' = [op |-> "poll", outcome |-> "throw",
                         what |-> "PriorityQueue is empty!"]
             /\ _data' = <<>>
             /\ polled' = polled
             /\ stamp' = stamp]_vars

\* A poll has thrown on a queue that was filled and drained.
C3_Witness ==
    /\ last.op = "poll" /\ last.outcome = "throw"
    /\ Len(pushed) = MaxPushes
    /\ Len(polled) = Len(pushed)

(***************************************************************************)
(* C4.  Stability as the specification states it: of two stored elements   *)
(* of equal rank, the one pushed earlier is nearer the front.              *)
(***************************************************************************)
C4_Stable ==
    \A i, j \in DOMAIN _data :
        (MyComparator(T, _data[i], _data[j]) = 0 /\ stamp[i] < stamp[j]) => i < j

(***************************************************************************)
(* C4, amended.  Of two stored elements of equal rank, the one pushed      *)
(* later is nearer the front: push places the new element before every     *)
(* stored element equal to it.                                             *)
(***************************************************************************)
C4_NewestEqualFirst ==
    \A i, j \in DOMAIN _data :
        (MyComparator(T, _data[i], _data[j]) = 0 /\ stamp[i] < stamp[j]) => j < i

\* Two elements of equal rank are stored, with another push made between theirs.
C4_Witness ==
    /\ Len(_data) >= 2
    /\ \E i, j \in DOMAIN _data :
          /\ i # j
          /\ MyComparator(T, _data[i], _data[j]) = 0
          /\ stamp[j] - stamp[i] >= 2

(***************************************************************************)
(* C5.  n pushes onto an empty queue followed by n polls, not              *)
(* interleaved: the polls return a permutation of the pushed values, in    *)
(* non-decreasing comparator order, and leave the queue empty.             *)
(***************************************************************************)
C5_BatchSorted ==
    (batch /\ Len(polled) = Len(pushed))
        => /\ SeqToBag(polled) = SeqToBag(pushed)
           /\ \A k \in 1 .. (Len(polled) - 1) :
                 MyComparator(T, polled[k], polled[k + 1]) <= 0
           /\ _data = <<>>

(***************************************************************************)
(* C6.  Duplicates are kept: the bag of stored elements is the bag of      *)
(* pushed values less the bag of values returned by poll; when one value   *)
(* was pushed k times, every poll returned it and k polls empty the queue. *)
(***************************************************************************)
C6_Conservation ==
    /\ SeqToBag(_data) (+) SeqToBag(polled) = SeqToBag(pushed)
    /\ Len(_data) + Len(polled) = Len(pushed)
    /\ (\A i \in DOMAIN pushed : pushed[i] = pushed[1])
          => /\ \A i \in DOMAIN polled : polled[i] = pushed[1]
             /\ \A i \in DOMAIN _data : _data[i] = pushed[1]
             /\ (last.outcome = "throw" => Len(polled) = Len(pushed))

\* One value pushed MaxPushes times, polled as often, and one more poll threw.
C6_Witness ==
    /\ Len(pushed) = MaxPushes
    /\ \A i \in DOMAIN pushed : pushed[i] = pushed[1]
    /\ Len(polled) = MaxPushes
    /\ last.outcome = "throw"

(***************************************************************************)
(* C7.  Frame: push adds one element and leaves the stored elements in     *)
(* their order; a poll that returns removes the front element only and     *)
(* leaves the others in their order.                                       *)
(***************************************************************************)
C7_Frame ==
    [][/\ pushed' # pushed
          => /\ Len(_data') = Len(_data) + 1
             /\ \E k \in DOMAIN _data' :
                   /\ _data'[k] = pushed'[Len(pushed')]
                   /\ RemoveAt(_data', k) = _data
                   /\ RemoveAt(stamp', k) = stamp
       /\ (last'.op = "poll" /\ _data # <<>>)
          => /\ Len(_data') = Len(_data) - 1
             /\ _data' = Tail(_data)
             /\ stamp' = Tail(stamp)
             /\ pushed' = pushed]_vars

\* A poll has returned and left two or more elements, after a push that
\* followed an earlier poll.
C7_Witness ==
    /\ last.op = "poll" /\ last.outcome = "return"
    /\ Len(_data) >= 2
    /\ ~batch

(***************************************************************************)
(* C8.  The invariant as the specification states it: for adjacent         *)
(* elements a (earlier) and b (later), _compare(a, b) >= 0.                *)
(***************************************************************************)
C8_AdjacentNonNegative ==
    \A i \in Adjacent : MyComparator(T, _data[i], _data[i + 1]) >= 0

(***************************************************************************)
(* C8, amended.  For adjacent elements a (earlier) and b (later):          *)
(* _compare(a, b) < 0 or _compare(b, a) >= 0; and when T is signed,        *)
(* _compare(a, b) <= 0.                                                    *)
(***************************************************************************)
C8_AdjacentNonPositive ==
    \A i \in Adjacent :
        /\ \/ MyComparator(T, _data[i], _data[i + 1]) < 0
           \/ MyComparator(T, _data[i + 1], _data[i]) >= 0
        /\ T = "signed" => MyComparator(T, _data[i], _data[i + 1]) <= 0

\* A signed queue of three elements whose last is less than its first: the
\* difference of two stored elements has wrapped.
C8_Witness ==
    /\ T = "signed"
    /\ Len(_data) = 3
    /\ _data[3] < _data[1]

(***************************************************************************)
(* C9.  The only failure is poll throwing on an empty queue: push always   *)
(* returns, poll on a non-empty queue always returns an element that was   *)
(* stored, and a throw comes from poll on an empty queue only.             *)
(***************************************************************************)
C9_OnlyEmptyPollThrows ==
    [][/\ pushed' # pushed => last' = [op |-> "push", outcome |-> "return"]
       /\ (last'.op = "poll" /\ _data # <<>>)
             => /\ last'.outcome = "return"
                /\ \E i \in DOMAIN _data : last'.val = _data[i]
       /\ last'.outcome = "throw" => (last'.op = "poll" /\ _data = <<>>)]_vars

\* After MaxPushes pushes, a poll has returned the last stored element.
C9_Witness ==
    /\ last.op = "poll" /\ last.outcome = "return"
    /\ _data = <<>>
    /\ Len(pushed) = MaxPushes

(***************************************************************************)
(* C10.  MyComparator's documented result: negative if val1 < val2,        *)
(* positive if val1 > val2, 0 if val1 == val2, for every comparison push   *)
(* makes.                                                                  *)
(***************************************************************************)
C10_ComparatorSign ==
    \A i \in DOMAIN calls :
        /\ calls[i][1] < calls[i][2] => calls[i][3] < 0
        /\ calls[i][1] > calls[i][2] => calls[i][3] > 0
        /\ calls[i][1] = calls[i][2] => calls[i][3] = 0

\* The position in the list of the node made by the latest push.
NewestAt(st) == CHOOSE k \in DOMAIN st : \A i \in DOMAIN st : st[i] <= st[k]

\* The length of the longest front prefix of s whose elements e all have
\* _compare(e, t) < 0.
PrefixBefore(ty, s, t) ==
    CHOOSE n \in 0 .. Len(s) :
        /\ \A i \in 1 .. n : MyComparator(ty, s[i], t) < 0
        /\ n < Len(s) => ~(MyComparator(ty, s[n + 1], t) < 0)

(***************************************************************************)
(* C12.  push(value) inserts value at index k, the length of the longest   *)
(* front prefix whose elements e all have _compare(e, value) < 0: just     *)
(* before the first element with _compare(e, value) >= 0, or at the end    *)
(* when there is none.                                                     *)
(***************************************************************************)
C12_InsertAfterPrefix ==
    [][pushed' # pushed
          => LET value == pushed'[Len(pushed')]
                 k == PrefixBefore(T, _data, value)
             IN  /\ _data' = SubSeq(_data, 1, k) \o <<value>>
                                \o SubSeq(_data, k + 1, Len(_data))
                 /\ k < Len(_data) => MyComparator(T, _data[k + 1], value) >= 0]_vars

\* The latest call was a push that put its value between two stored elements.
C12_Witness ==
    /\ last.op = "push"
    /\ Len(_data) = 3
    /\ NewestAt(stamp) = 2

C14_BoundedScan ==
    /\ last.op = "push"
          => LET k == NewestAt(stamp)
                 old == RemoveAt(_data, k)
             IN  /\ last.outcome = "return"
                 /\ Len(calls) <= Len(old)
                 /\ Len(calls) = IF k <= Len(old) THEN k ELSE Len(old)
                 /\ \A i \in DOMAIN calls :
                       /\ calls[i][1] = old[i]
                       /\ calls[i][2] = _data[k]
                       /\ i < Len(calls) => calls[i][3] < 0
    /\ last.op = "poll" => last.outcome \in {"return", "throw"}
    /\ Len(calls) <= MaxPushes - 1

\* A push onto a list of two elements has compared both and inserted at the end.
C14_Witness ==
    /\ last.op = "push"
    /\ Len(_data) = 3
    /\ NewestAt(stamp) = 3
    /\ Len(calls) = 2

(***************************************************************************)
(* C15.  With the default comparator on integers of a range in which       *)
(* subtraction does not overflow, push is order-independent: from any      *)
(* queue state, push(x) then push(y) stores the same value sequence as     *)
(* push(y) then push(x); so after pushes alone the stored sequence is the  *)
(* one ascending arrangement of the bag of pushed values.                  *)
(***************************************************************************)
C15_PushCommutes ==
    /\ \A x, y \in NoOverflowValues :
          push(T, push(T, _data, x), y) = push(T, push(T, _data, y), x)
    /\ polled = <<>>
          => /\ SeqToBag(_data) = SeqToBag(pushed)
             /\ \A i \in Adjacent : _data[i] <= _data[i + 1]

\* Pushes alone, made out of ascending order, onto a queue that now holds
\* MaxPushes elements, not all equal.
C15_Witness ==
    /\ polled = <<>>
    /\ Len(pushed) = MaxPushes
    /\ pushed[1] > pushed[MaxPushes]
    /\ _data # pushed

(***************************************************************************)
(* C16.  Tie-break of push: the scan stops at the first element e with     *)
(* _compare(e, value) >= 0, so the new element goes before every stored    *)
(* element of equal rank; among stored elements of equal rank the one      *)
(* pushed last is nearest the front and is the one poll returns first.     *)
(***************************************************************************)
C16_NewestEqualPolledFirst ==
    [][/\ pushed' # pushed
          => LET k == NewestAt(stamp')
             IN  \A i \in DOMAIN _data' :
                    (i # k /\ MyComparator(T, _data'[i], _data'[k]) = 0) => k < i
       /\ (last'.op = "poll" /\ _data # <<>>)
          => /\ last'.val = _data[1]
             /\ \A i \in DOMAIN _data :
                   MyComparator(T, _data[i], _data[1]) = 0 => stamp[i] <= stamp[1]]_vars

\* A poll has returned an element while an element of equal rank, pushed
\* before it, stays stored behind an element pushed between the two.
C16_Witness ==
    /\ last.op = "poll" /\ last.outcome = "return"
    /\ Len(polled) = 1
    /\ Len(_data) = 2
    /\ MyComparator(T, _data[2], last.val) = 0
    /\ stamp[2] = 1
    /\ stamp[1] = 2

====
